---- MODULE Spec2Model ----
(***************************************************************************)
(* asahi-nvram: the command line tool of src/asahi-nvram/src/main.rs.      *)
(*                                                                         *)
(* Text and values are sequences of bytes (0..255).  A Rust &str is its    *)
(* UTF-8 bytes; read_var and split_once work on exactly those bytes.       *)
(*                                                                         *)
(* Spec is one invocation of real_main, one action per statement that can  *)
(* return, print or touch the image or the device.  CodecSpec applies      *)
(* print_var's formatting and read_var to values on their own.             *)
(*                                                                         *)
(* The apple_nvram crate (Nvram, Section, UnescapeVal, erase_if_needed) is *)
(* not part of main.rs: the image is its two collections, the device one   *)
(* cell per collection.  The device calls that main.rs unwraps (open,      *)
(* read_to_end, rewind, write_all) are taken to succeed.                   *)
(***************************************************************************)
EXTENDS Integers, Sequences, FiniteSets, TLC

\* ------------------------------------------------------------ bounds

\* longest value / text the codec specification draws
MaxLen == 3

\* ------------------------------------------------- program constants

\* b'%' (main.rs:137, main.rs:160)
Percent == 37
\* ':' (main.rs:71, 93, 111, 163)
Colon == 58
\* '=' (main.rs:92, 163)
Equals == 61
\* radix of u8::from_str_radix (main.rs:141)
Radix == 16

\* -------------------------------------------------------- escape codec

\* Result<Vec<u8>>: Ok(bytes), Err(Error::InvalidHex), or the outcomes of
\* the slicing and of from_utf8_unchecked that are not a return value.
Ok(bytes) == [tag |-> "Ok", bytes |-> bytes]
InvalidHex == [tag |-> "InvalidHex", bytes |-> <<>>]
\* &val[i + 1..i + 3] with i + 3 > val.len(): slice index out of range
Panic == [tag |-> "Panic", bytes |-> <<>>]
\* from_utf8_unchecked on bytes that are not UTF-8 (the slice cuts a
\* multi-byte character of the argument): undefined behaviour
UB == [tag |-> "UB", bytes |-> <<>>]

\* char::to_digit(16): the digit's value, or -1
HexDigitValue(c) ==
    IF c >= 48 /\ c <= 57 THEN c - 48
    ELSE IF c >= 97 /\ c <= 102 THEN c - 87
    ELSE IF c >= 65 /\ c <= 70 THEN c - 55
    ELSE -1

\* u8::from_str_radix(s, 16) for a two-byte s: the value, or -1 for Err.
\* A leading '+' is a sign and is skipped (a leading '-' is not, for an
\* unsigned type); every remaining byte must be a digit.
from_str_radix(s) ==
    IF s[1] = 43
    THEN HexDigitValue(s[2])
    ELSE IF HexDigitValue(s[1]) < 0 \/ HexDigitValue(s[2]) < 0
         THEN -1
         ELSE (HexDigitValue(s[1]) * Radix + HexDigitValue(s[2])) % 256

\* whether the two bytes val[i + 1..i + 3] are UTF-8 on their own
IsUtf8Pair(s) ==
    \/ s[1] < 128 /\ s[2] < 128
    \/ s[1] >= 194 /\ s[1] <= 223 /\ s[2] >= 128 /\ s[2] <= 191

\* the while loop of read_var, from 1-based position i with ret collected
RECURSIVE read_var_from(_, _, _)
read_var_from(val, i, ret) ==
    IF i > Len(val) THEN Ok(ret)
    ELSE IF val[i] = Percent
    THEN IF i + 2 > Len(val) THEN Panic
         ELSE LET s == <<val[i + 1], val[i + 2]>> IN
              IF ~IsUtf8Pair(s) THEN UB
              ELSE IF from_str_radix(s) < 0 THEN InvalidHex
              ELSE read_var_from(val, i + 3, Append(ret, from_str_radix(s)))
    ELSE read_var_from(val, i + 1, Append(ret, val[i]))

read_var(val) == read_var_from(val, 1, <<>>)

\* what a build can produce for a call of read_var: its result, or for
\* undefined behaviour any of an error, a crash and a wrong byte
read_var_outcomes(val) ==
    IF read_var(val) = UB
    THEN {InvalidHex, Panic, Ok(<<0>>)}
    ELSE {read_var(val)}

\* apple_nvram::UnescapeVal: the container's escape syntax in a stored value
\* is the marker 0xFF followed by a count byte, standing for a run of
\* (count & 0x7F) bytes 0x00 (or 0xFF when count & 0x80 is set); every other
\* byte stands for itself.
RECURSIVE UnescapeVal(_)
UnescapeVal(v) ==
    IF v = <<>> THEN <<>>
    ELSE IF Head(v) # 255 THEN <<Head(v)>> \o UnescapeVal(Tail(v))
    ELSE IF Len(v) < 2 THEN <<>>
    ELSE LET count == v[2]
             fill == IF count < 128 THEN 0 ELSE 255
             n == count % 128
         IN  [k \in 1..n |-> fill] \o UnescapeVal(Tail(Tail(v)))

\* {c:02x}: one lowercase hexadecimal digit
HexChar(d) == IF d < 10 THEN 48 + d ELSE 87 + d

\* mutant of EscapeByte: every ASCII byte from ' ' on is printed as it is,
\* DEL among them
EscapeByteKeepsDel(c) ==
    IF c < 128 /\ c >= 32
    THEN <<c>>
    ELSE <<Percent, HexChar(c \div Radix), HexChar(c % Radix)>>

\* the body of print_var's loop for one byte c
EscapeByte(c) ==
    IF c < 128 /\ ~(c < 32 \/ c = 127)
    THEN <<c>>
    ELSE <<Percent, HexChar(c \div Radix), HexChar(c % Radix)>>

RECURSIVE EscapeBytes(_)
EscapeBytes(v) ==
    IF v = <<>> THEN <<>> ELSE EscapeByte(Head(v)) \o EscapeBytes(Tail(v))

\* the text print_var builds in `value` for a stored value
encode(value) == EscapeBytes(UnescapeVal(value))

\* ------------------------------------------------------------ tokens

\* "common", "system" (main.rs:126, 127) and a name that is neither
COMMON == <<99, 111, 109, 109, 111, 110>>
SYSTEM == <<115, 121, 115, 116, 101, 109>>
BOGUS == <<98, 111, 103, 117, 115>>

\* common:test=%48%65%6c%6c%6f
HelloToken ==
    COMMON \o <<Colon, 116, 101, 115, 116, Equals>>
        \o <<Percent, 52, 56, Percent, 54, 53, Percent, 54, 99,
              Percent, 54, 99, Percent, 54, 102>>

\* the command line tokens the model draws its reference lists from
Tokens ==
    { COMMON \o <<Colon, 120, Equals, 49>>,                 \* common:x=1
      COMMON \o <<Colon, 120, Equals, 50>>,                 \* common:x=2
      SYSTEM \o <<Colon, 120, Equals, Percent, 52, 49>>,    \* system:x=%41
      COMMON \o <<Colon, 120>>,                             \* common:x
      BOGUS \o <<Colon, 120>>,                              \* bogus:x
      BOGUS \o <<Colon, 120, Equals, Percent, 103, 103>>,   \* bogus:x=%gg
      COMMON \o <<Colon, 120, Equals, Percent, 103, 103>>,  \* common:x=%gg
      <<102, 111, 111>>,                                    \* foo
      <<120, Equals, 49, Colon, 50>>,                       \* x=1:2
      COMMON \o <<Colon, 121, Equals, 49, Equals, 50>>,     \* common:y=1=2
      COMMON \o <<Colon, 120, Equals, Percent>>,            \* common:x=%
      COMMON \o <<Colon, 120, Equals, Percent, 43, 102>>,   \* common:x=%+f
      COMMON \o <<Colon, 120, Colon, 121>>,                 \* common:x:y
      HelloToken }

\* longest reference list of one invocation
MaxArgs == 2

ArgLists == UNION { [1..n -> Tokens] : n \in 0..MaxArgs }

\* str::split_once: None, or the text before and after the first d
None == [found |-> FALSE, before |-> <<>>, after |-> <<>>]

FirstIndex(s, d) ==
    CHOOSE k \in 1..Len(s) : s[k] = d /\ \A j \in 1..(k - 1) : s[j] # d

\* mutant of split_once: the split is made at the last d (rsplit_once)
LastIndex(s, d) ==
    CHOOSE k \in 1..Len(s) : s[k] = d /\ \A j \in (k + 1)..Len(s) : s[j] # d

rsplit_once(s, d) ==
    IF \A k \in 1..Len(s) : s[k] # d
    THEN None
    ELSE [found |-> TRUE,
          before |-> SubSeq(s, 1, LastIndex(s, d) - 1),
          after |-> SubSeq(s, LastIndex(s, d) + 1, Len(s))]

split_once(s, d) ==
    IF \A k \in 1..Len(s) : s[k] # d
    THEN None
    ELSE [found |-> TRUE,
          before |-> SubSeq(s, 1, FirstIndex(s, d) - 1),
          after |-> SubSeq(s, FirstIndex(s, d) + 1, Len(s))]

\* ------------------------------------------------- image and device

\* Variable { key, value }
Variable(key, value) == [key |-> key, value |-> value]

\* Section.values.get, .insert (replacing the entry of the key), .remove
SectionGet(values, key) == {v \in values : v.key = key}
\* mutant of SectionInsert: an entry already there is kept (or_insert)
SectionInsertKeeps(values, key, var) ==
    IF \E v \in values : v.key = key THEN values ELSE values \cup {var}

SectionInsert(values, key, var) == {v \in values : v.key # key} \cup {var}

SectionRemove(values, key) == {v \in values : v.key # key}

\* what a section may hold before serialize fails with SectionTooBig
SectionCapacity == 9

RECURSIVE SectionSize(_)
SectionSize(values) ==
    IF values = {} THEN 0
    ELSE LET var == CHOOSE x \in values : TRUE
         IN  Len(var.key) + Len(var.value) + SectionSize(values \ {var})

\* the device holds one cell per section of the image, erased or written
ErasedCell == [erased |-> TRUE, values |-> {}]
Cell(values) == [erased |-> FALSE, values |-> values]

\* Nvram::serialize: the image's bytes, or SectionTooBig
SerializeFits(n) ==
    SectionSize(n.common) <= SectionCapacity /\ SectionSize(n.system) <= SectionCapacity
Serialize(n) == <<Cell(n.common), Cell(n.system)>>

\* Nvram::parse: Error::Parse unless the bytes hold a written image
ParseOk(bytes) ==
    Len(bytes) >= 2 /\ ~bytes[1].erased /\ ~bytes[2].erased
Parse(bytes) ==
    [common |-> bytes[1].values, system |-> bytes[2].values, prepared |-> 0]

\* erase_if_needed(&file, len): a device that needs erasing (flash) has the
\* len bytes from its start erased; any other device is left as it is
erase_if_needed(f, len) ==
    IF f.erasable
    THEN [f EXCEPT !.data = [k \in 1..Len(f.data) |->
                                IF k <= len THEN ErasedCell ELSE f.data[k]]]
    ELSE f

\* mutant of rewind: the cursor stays where the start-up read left it
rewind_stays(f) == f

\* file.rewind(): the cursor back to the start
rewind(f) == [f EXCEPT !.cursor = 0]

\* mutant of write_all: one write call whose short count is not followed
\* up, so that only the first cell lands
write_all_short(f, bytes) ==
    [f EXCEPT !.data = [k \in 1..Len(f.data) |->
                           IF k = f.cursor + 1 /\ bytes # <<>> THEN bytes[1]
                           ELSE f.data[k]],
              !.cursor = IF bytes # <<>> THEN f.cursor + 1 ELSE f.cursor]

\* file.write_all(bytes): the bytes land at the cursor, which moves on
write_all(f, bytes) ==
    LET end == f.cursor + Len(bytes)
        n == IF end > Len(f.data) THEN end ELSE Len(f.data)
    IN  [f EXCEPT !.data = [k \in 1..n |->
                               IF k > f.cursor /\ k <= end THEN bytes[k - f.cursor]
                               ELSE IF k <= Len(f.data) THEN f.data[k]
                               ELSE ErasedCell],
                  !.cursor = end]

\* mutant of part_by_name: a name that is not "system" falls back to the
\* common collection
part_by_name_default(name) ==
    IF name = SYSTEM THEN "system" ELSE "common"

\* mutant of part_by_name: each of the two names gives the other's
\* collection
part_by_name_swapped(name) ==
    IF name = COMMON THEN "system"
    ELSE IF name = SYSTEM THEN "common"
    ELSE "UnknownPartition"

\* part_by_name: the section of the active partition, or UnknownPartition
part_by_name(name) ==
    IF name = COMMON THEN "common"
    ELSE IF name = SYSTEM THEN "system"
    ELSE "UnknownPartition"

\* the line print_var prints
print_var(section, var) ==
    section \o <<Colon>> \o var.key \o <<Equals>> \o encode(var.value)

\* the images a device holds at start-up in the model
InitImages ==
    { [common |-> {}, system |-> {}],
      [common |-> {Variable(<<120>>, <<48>>)},
       system |-> {Variable(<<120>>, <<57>>)}],
      [common |-> {Variable(<<120>>, <<48>>), Variable(<<121>>, <<10>>)},
       system |-> {}] }

InitDevices ==
    { <<Cell(im.common), Cell(im.system)>> : im \in InitImages }
        \cup { <<ErasedCell, ErasedCell>> }

\* ------------------------------------------------------------- state

VARIABLES
    pc,      \* where real_main stands
    cmd,     \* matches.subcommand(): "read", "write", "delete" or "none"
    vars,    \* the subcommand's reference list (empty: get_many gave None)
    i,       \* how many references the loop has gone through
    nv,      \* the parsed image: the active partition's two collections
    file,    \* the device: its contents, its cursor, whether it needs erasing
    data,    \* the bytes read at start-up (main.rs:63)
    serial,  \* the serialized image (`data` of main.rs:103, 115)
    ref,     \* the reference the loop parsed last: token, partition, name, value
    out,     \* the lines printed so far
    err,     \* "None", or what ended real_main early
    events,  \* the calls made on the image and the device, in order
    todo,    \* the variables the dump of a collection has yet to print
    prev,    \* the invocation made on the device before this one, if any
    cval,    \* codec: the value or text under test
    ctext,   \* codec: the text print_var builds for cval
    cres,    \* codec: what read_var returned
    cpc      \* codec: which function was applied last

vars_main ==
    <<pc, cmd, vars, i, nv, file, data, serial, ref, out, err, events, todo,
      prev>>
vars_codec == <<cval, ctext, cres, cpc>>
allvars ==
    <<pc, cmd, vars, i, nv, file, data, serial, ref, out, err, events, todo,
      prev, cval, ctext, cres, cpc>>

NoImage == [common |-> {}, system |-> {}, prepared |-> 0]
NoPrev == [run |-> 0, cmd |-> "none", vars |-> <<>>, err |-> "None"]
NoRef == [token |-> <<>>, part |-> <<>>, name |-> <<>>, value |-> <<>>]

CodecIdle ==
    /\ cval = <<>>
    /\ ctext = <<>>
    /\ cres = Ok(<<>>)
    /\ cpc = "idle"

\* the process after argument parsing and OpenOptions::open (main.rs:39-62)
Init ==
    /\ pc = "start"
    /\ cmd \in {"read", "write", "delete", "none"}
    /\ vars \in ArgLists
    /\ (cmd = "none" => vars = <<>>)
    /\ i = 0
    /\ nv = NoImage
    /\ \E d \in InitDevices, e \in BOOLEAN :
           file = [data |-> d, cursor |-> 0, erasable |-> e]
    /\ data = <<>>
    /\ serial = <<>>
    /\ ref = NoRef
    /\ out = <<>>
    /\ err = "None"
    /\ events = <<>>
    /\ todo = {}
    /\ prev = NoPrev
    /\ CodecIdle

\* the parts of one token: (part, name) of main.rs:71, 93, 111 and value of
\* main.rs:92
Reference(token, part, name, value) ==
    [token |-> token, part |-> part, name |-> name, value |-> value]

\* where a loop goes once reference number k is done
AfterRef(k, more, last) == IF k < Len(vars) THEN more ELSE last

\* mutant of Fail: the loops break out on an error instead of returning
FailButCommit(e) ==
    /\ err' = e
    /\ pc' = IF pc \in {"write", "delete"} THEN "rewind" ELSE "done"

\* return Err(e) out of real_main
Fail(e) ==
    /\ err' = e
    /\ pc' = "done"

\* file.read_to_end(&mut data); Nvram::parse(&data)?; match matches.subcommand()
ReadDevice ==
    /\ pc = "start"
    /\ data' = file.data
    /\ file' = [file EXCEPT !.cursor = Len(file.data)]
    /\ IF ~ParseOk(file.data)
       THEN /\ Fail("Parse")
            /\ UNCHANGED <<nv, todo>>
       ELSE /\ nv' = Parse(file.data)
            /\ err' = err
            /\ pc' = CASE cmd = "read" /\ vars # <<>> -> "read"
                       [] cmd = "read" /\ vars = <<>> -> "dump_common"
                       [] cmd \in {"write", "delete"} -> "prepare"
                       [] OTHER -> "done"
            /\ todo' = IF cmd = "read" /\ vars = <<>>
                       THEN Parse(file.data).common ELSE {}
    /\ UNCHANGED <<prev, cmd, vars, i, serial, ref, out, events>>
    /\ UNCHANGED vars_codec

\* mutant of ReadVar: the variable is taken out of the collection
\* (values.remove) instead of borrowed (values.get)
ReadVarTakes ==
    /\ pc = "read"
    /\ LET var == vars[i + 1]
           pn == split_once(var, Colon)
           part == part_by_name(pn.before)
       IN  IF ~pn.found
           THEN Fail("MissingPartitionName") /\ UNCHANGED <<i, out, ref, nv>>
           ELSE /\ ref' = Reference(var, pn.before, pn.after, <<>>)
                /\ IF part = "UnknownPartition"
                   THEN Fail("UnknownPartition") /\ UNCHANGED <<i, out, nv>>
                   ELSE IF SectionGet(nv[part], pn.after) = {}
                   THEN Fail("VariableNotFound") /\ UNCHANGED <<i, out, nv>>
                   ELSE /\ \E v \in SectionGet(nv[part], pn.after) :
                               out' = Append(out, print_var(pn.before, v))
                        /\ nv' = [nv EXCEPT ![part] = SectionRemove(@, pn.after)]
                        /\ i' = i + 1
                        /\ pc' = AfterRef(i + 1, "read", "done")
                        /\ err' = err
    /\ UNCHANGED <<prev, cmd, vars, file, data, serial, events, todo>>
    /\ UNCHANGED vars_codec

\* mutant of ReadVar: a variable that is absent is passed over and the
\* loop goes on
ReadVarSkips ==
    /\ pc = "read"
    /\ LET var == vars[i + 1]
           pn == split_once(var, Colon)
           part == part_by_name(pn.before)
       IN  IF ~pn.found
           THEN Fail("MissingPartitionName") /\ UNCHANGED <<i, out, ref>>
           ELSE /\ ref' = Reference(var, pn.before, pn.after, <<>>)
                /\ IF part = "UnknownPartition"
                   THEN Fail("UnknownPartition") /\ UNCHANGED <<i, out>>
                   ELSE /\ IF SectionGet(nv[part], pn.after) = {}
                           THEN out' = out
                           ELSE \E v \in SectionGet(nv[part], pn.after) :
                                    out' = Append(out, print_var(pn.before, v))
                        /\ i' = i + 1
                        /\ pc' = AfterRef(i + 1, "read", "done")
                        /\ err' = err
    /\ UNCHANGED <<prev, cmd, vars, nv, file, data, serial, events, todo>>
    /\ UNCHANGED vars_codec

\* one turn of `for var in vars` of the read branch (main.rs:70-77)
ReadVar ==
    /\ pc = "read"
    /\ LET var == vars[i + 1]
           pn == split_once(var, Colon)
           part == part_by_name(pn.before)
       IN  IF ~pn.found
           THEN Fail("MissingPartitionName") /\ UNCHANGED <<i, out, ref>>
           ELSE /\ ref' = Reference(var, pn.before, pn.after, <<>>)
                /\ IF part = "UnknownPartition"
                   THEN Fail("UnknownPartition") /\ UNCHANGED <<i, out>>
                   ELSE IF SectionGet(nv[part], pn.after) = {}
                   THEN Fail("VariableNotFound") /\ UNCHANGED <<i, out>>
                   ELSE /\ \E v \in SectionGet(nv[part], pn.after) :
                               out' = Append(out, print_var(pn.before, v))
                        /\ i' = i + 1
                        /\ pc' = AfterRef(i + 1, "read", "done")
                        /\ err' = err
    /\ UNCHANGED <<prev, cmd, vars, nv, file, data, serial, events, todo>>
    /\ UNCHANGED vars_codec

\* `for var in part.common.values.values()`: one variable per turn, in
\* whatever order the map iterates (main.rs:80-82)
DumpCommon ==
    /\ pc = "dump_common"
    /\ IF todo = {}
       THEN /\ pc' = "dump_system"
            /\ todo' = nv.system
            /\ out' = out
       ELSE \E v \in todo :
                /\ out' = Append(out, print_var(COMMON, v))
                /\ todo' = todo \ {v}
                /\ pc' = pc
    /\ UNCHANGED <<prev, cmd, vars, i, nv, file, data, serial, ref, err, events>>
    /\ UNCHANGED vars_codec

\* mutant of DumpSystem: the lines of the system collection carry the
\* label of the common one
DumpSystemAsCommon ==
    /\ pc = "dump_system"
    /\ IF todo = {}
       THEN /\ pc' = "done"
            /\ UNCHANGED <<todo, out>>
       ELSE \E v \in todo :
                /\ out' = Append(out, print_var(COMMON, v))
                /\ todo' = todo \ {v}
                /\ pc' = pc
    /\ UNCHANGED <<prev, cmd, vars, i, nv, file, data, serial, ref, err, events>>
    /\ UNCHANGED vars_codec

\* `for var in part.system.values.values()` (main.rs:83-85)
DumpSystem ==
    /\ pc = "dump_system"
    /\ IF todo = {}
       THEN /\ pc' = "done"
            /\ UNCHANGED <<todo, out>>
       ELSE \E v \in todo :
                /\ out' = Append(out, print_var(SYSTEM, v))
                /\ todo' = todo \ {v}
                /\ pc' = pc
    /\ UNCHANGED <<prev, cmd, vars, i, nv, file, data, serial, ref, err, events>>
    /\ UNCHANGED vars_codec

\* mutant of Prepare: an empty reference list returns without a commit
PrepareSkipsEmpty ==
    /\ pc = "prepare"
    /\ nv' = [nv EXCEPT !.prepared = @ + 1]
    /\ events' = Append(events, "prepare_for_write")
    /\ pc' = IF vars = <<>> THEN "done"
             ELSE IF cmd = "write" THEN "write" ELSE "delete"
    /\ UNCHANGED <<prev, cmd, vars, i, file, data, serial, ref, out, err, todo>>
    /\ UNCHANGED vars_codec

\* mutant of Prepare: prepare_for_write is left out when the batch has
\* references, to be made up for at the commit
PrepareOnlyEmpty ==
    /\ pc = "prepare"
    /\ nv' = IF vars = <<>> THEN [nv EXCEPT !.prepared = @ + 1] ELSE nv
    /\ events' = IF vars = <<>>
                 THEN Append(events, "prepare_for_write") ELSE events
    /\ pc' = IF vars = <<>> THEN "rewind"
             ELSE IF cmd = "write" THEN "write" ELSE "delete"
    /\ UNCHANGED <<prev, cmd, vars, i, file, data, serial, ref, out, err, todo>>
    /\ UNCHANGED vars_codec

\* nv.prepare_for_write() of the write and delete branches (main.rs:90, 109)
Prepare ==
    /\ pc = "prepare"
    /\ nv' = [nv EXCEPT !.prepared = @ + 1]
    /\ events' = Append(events, "prepare_for_write")
    /\ pc' = IF vars = <<>> THEN "rewind"
             ELSE IF cmd = "write" THEN "write" ELSE "delete"
    /\ UNCHANGED <<prev, cmd, vars, i, file, data, serial, ref, out, err, todo>>
    /\ UNCHANGED vars_codec

\* mutant of WriteVar: a variable is put into the common collection, with
\* the text of its value, before its unknown partition name is rejected
WriteVarEager ==
    /\ pc = "write"
    /\ LET var == vars[i + 1]
           kv == split_once(var, Equals)
           pn == split_once(kv.before, Colon)
           part == part_by_name(pn.before)
       IN  IF ~kv.found
           THEN Fail("MissingValue") /\ UNCHANGED <<i, nv, events, ref>>
           ELSE IF ~pn.found
           THEN Fail("MissingPartitionName") /\ UNCHANGED <<i, nv, events, ref>>
           ELSE /\ ref' = Reference(var, pn.before, pn.after, kv.after)
                /\ IF part = "UnknownPartition"
                   THEN /\ Fail("UnknownPartition")
                        /\ nv' = [nv EXCEPT !.common =
                                     SectionInsert(@, pn.after,
                                         Variable(pn.after, kv.after))]
                        /\ events' = Append(events, "insert")
                        /\ i' = i
                   ELSE \E r \in read_var_outcomes(kv.after) :
                            IF r.tag # "Ok"
                            THEN Fail(r.tag) /\ UNCHANGED <<i, nv, events>>
                            ELSE /\ nv' = [nv EXCEPT ![part] =
                                             SectionInsert(@, pn.after,
                                                 Variable(pn.after, r.bytes))]
                                 /\ events' = Append(events, "insert")
                                 /\ i' = i + 1
                                 /\ pc' = AfterRef(i + 1, "write", "rewind")
                                 /\ err' = err
    /\ UNCHANGED <<prev, cmd, vars, file, data, serial, out, todo>>
    /\ UNCHANGED vars_codec

\* one turn of `for var in vars` of the write branch (main.rs:91-101): the
\* two splits, then part_by_name, then read_var, then the insert
WriteVar ==
    /\ pc = "write"
    /\ LET var == vars[i + 1]
           kv == split_once(var, Equals)
           pn == split_once(kv.before, Colon)
           part == part_by_name(pn.before)
       IN  IF ~kv.found
           THEN Fail("MissingValue") /\ UNCHANGED <<i, nv, events, ref>>
           ELSE IF ~pn.found
           THEN Fail("MissingPartitionName") /\ UNCHANGED <<i, nv, events, ref>>
           ELSE /\ ref' = Reference(var, pn.before, pn.after, kv.after)
                /\ IF part = "UnknownPartition"
                   THEN Fail("UnknownPartition") /\ UNCHANGED <<i, nv, events>>
                   ELSE \E r \in read_var_outcomes(kv.after) :
                            IF r.tag # "Ok"
                            THEN Fail(r.tag) /\ UNCHANGED <<i, nv, events>>
                            ELSE /\ nv' = [nv EXCEPT ![part] =
                                             SectionInsert(@, pn.after,
                                                 Variable(pn.after, r.bytes))]
                                 /\ events' = Append(events, "insert")
                                 /\ i' = i + 1
                                 /\ pc' = AfterRef(i + 1, "write", "rewind")
                                 /\ err' = err
    /\ UNCHANGED <<prev, cmd, vars, file, data, serial, out, todo>>
    /\ UNCHANGED vars_codec

\* mutant of DeleteVar: a name absent from its collection is an error, as
\* it is for read
DeleteVarStrict ==
    /\ pc = "delete"
    /\ LET var == vars[i + 1]
           pn == split_once(var, Colon)
           part == part_by_name(pn.before)
       IN  IF ~pn.found
           THEN Fail("MissingPartitionName") /\ UNCHANGED <<i, nv, events, ref>>
           ELSE /\ ref' = Reference(var, pn.before, pn.after, <<>>)
                /\ IF part = "UnknownPartition"
                   THEN Fail("UnknownPartition") /\ UNCHANGED <<i, nv, events>>
                   ELSE IF SectionGet(nv[part], pn.after) = {}
                   THEN Fail("VariableNotFound") /\ UNCHANGED <<i, nv, events>>
                   ELSE /\ nv' = [nv EXCEPT ![part] = SectionRemove(@, pn.after)]
                        /\ events' = Append(events, "remove")
                        /\ i' = i + 1
                        /\ pc' = AfterRef(i + 1, "delete", "rewind")
                        /\ err' = err
    /\ UNCHANGED <<prev, cmd, vars, file, data, serial, out, todo>>
    /\ UNCHANGED vars_codec

\* one turn of `for var in vars` of the delete branch (main.rs:110-113)
DeleteVar ==
    /\ pc = "delete"
    /\ LET var == vars[i + 1]
           pn == split_once(var, Colon)
           part == part_by_name(pn.before)
       IN  IF ~pn.found
           THEN Fail("MissingPartitionName") /\ UNCHANGED <<i, nv, events, ref>>
           ELSE /\ ref' = Reference(var, pn.before, pn.after, <<>>)
                /\ IF part = "UnknownPartition"
                   THEN Fail("UnknownPartition") /\ UNCHANGED <<i, nv, events>>
                   ELSE /\ nv' = [nv EXCEPT ![part] = SectionRemove(@, pn.after)]
                        /\ events' = Append(events, "remove")
                        /\ i' = i + 1
                        /\ pc' = AfterRef(i + 1, "delete", "rewind")
                        /\ err' = err
    /\ UNCHANGED <<prev, cmd, vars, file, data, serial, out, todo>>
    /\ UNCHANGED vars_codec

\* mutant of Rewind: erase_if_needed is called ahead of serialize, with
\* the length of the bytes read at start-up
RewindErases ==
    /\ pc = "rewind"
    /\ file' = erase_if_needed(rewind(file), Len(data))
    /\ events' = IF file.erasable
                 THEN events \o <<"rewind", "erase_if_needed", "erase">>
                 ELSE events \o <<"rewind", "erase_if_needed">>
    /\ pc' = "serialize"
    /\ UNCHANGED <<prev, cmd, vars, i, nv, data, serial, ref, out, err, todo>>
    /\ UNCHANGED vars_codec

\* file.rewind().unwrap() (main.rs:102, 114)
Rewind ==
    /\ pc = "rewind"
    /\ file' = rewind(file)
    /\ events' = Append(events, "rewind")
    /\ pc' = "serialize"
    /\ UNCHANGED <<prev, cmd, vars, i, nv, data, serial, ref, out, err, todo>>
    /\ UNCHANGED vars_codec

\* mutant of SerializeImage: the write follows the serialization at once,
\* without the erase decision
SerializeSkipsErase ==
    /\ pc = "serialize"
    /\ events' = Append(events, "serialize")
    /\ IF SerializeFits(nv)
       THEN /\ serial' = Serialize(nv)
            /\ pc' = "commit"
            /\ err' = err
       ELSE /\ Fail("SectionTooBig")
            /\ serial' = serial
    /\ UNCHANGED <<prev, cmd, vars, i, nv, file, data, ref, out, todo>>
    /\ UNCHANGED vars_codec

\* let data = nv.serialize()? (main.rs:103, 115)
SerializeImage ==
    /\ pc = "serialize"
    /\ events' = Append(events, "serialize")
    /\ IF SerializeFits(nv)
       THEN /\ serial' = Serialize(nv)
            /\ pc' = "erase"
            /\ err' = err
       ELSE /\ Fail("SectionTooBig")
            /\ serial' = serial
    /\ UNCHANGED <<prev, cmd, vars, i, nv, file, data, ref, out, todo>>
    /\ UNCHANGED vars_codec

\* erase_if_needed(&file, data.len()) (main.rs:104, 116)
EraseIfNeeded ==
    /\ pc = "erase"
    /\ file' = erase_if_needed(file, Len(serial))
    /\ events' = IF file.erasable
                 THEN events \o <<"erase_if_needed", "erase">>
                 ELSE Append(events, "erase_if_needed")
    /\ pc' = "commit"
    /\ UNCHANGED <<prev, cmd, vars, i, nv, data, serial, ref, out, err, todo>>
    /\ UNCHANGED vars_codec

\* file.write_all(&data).unwrap(); Ok(()) (main.rs:105, 117, 121)
WriteAll ==
    /\ pc = "commit"
    /\ file' = write_all(file, serial)
    /\ events' = Append(events, "write_all")
    /\ pc' = "done"
    /\ UNCHANGED <<prev, cmd, vars, i, nv, data, serial, ref, out, err, todo>>
    /\ UNCHANGED vars_codec

Next ==
    \/ ReadDevice
    \/ ReadVar
    \/ DumpCommon
    \/ DumpSystem
    \/ Prepare
    \/ WriteVar
    \/ DeleteVar
    \/ Rewind
    \/ SerializeImage
    \/ EraseIfNeeded
    \/ WriteAll

Spec == Init /\ [][Next]_allvars

\* ------------------------------------- two invocations on one device

\* the text of a write token before its first '=' (the token itself if it
\* has none): the reference to read back what the token wrote
KeyOf(t) == IF split_once(t, Equals).found THEN split_once(t, Equals).before ELSE t

\* the reference lists of the invocations of a session: at most one token
SessionLists == {<<>>} \cup {<<t>> : t \in Tokens \cup {KeyOf(u) : u \in Tokens}}

SessionInit ==
    /\ Init
    /\ vars \in SessionLists

\* the process has exited; the tool is run once more on the same device:
\* a new process with its own arguments, image and file handle
Invoke ==
    /\ pc = "done"
    /\ prev.run = 0
    /\ prev' = [run |-> 1, cmd |-> cmd, vars |-> vars, err |-> err]
    /\ pc' = "start"
    /\ cmd' \in {"read", "write", "delete"}
    /\ vars' \in SessionLists
    /\ i' = 0
    /\ nv' = NoImage
    /\ file' = [file EXCEPT !.cursor = 0]
    /\ data' = <<>>
    /\ serial' = <<>>
    /\ ref' = NoRef
    /\ out' = <<>>
    /\ err' = "None"
    /\ events' = <<>>
    /\ todo' = {}
    /\ UNCHANGED vars_codec

SessionNext ==
    \/ Next
    \/ Invoke

SessionSpec == SessionInit /\ [][SessionNext]_allvars

\* ------------------------------------------- the codec on its own

\* the bytes values and texts are drawn from: LF, US, ' ', '%', '+', '4',
\* 'A', 'f', 'g', '~', DEL, and the two bytes of U+00E9
ByteSample == {10, 31, 32, Percent, 43, 52, 65, 102, 103, 126, 127, 195, 169}

Values == UNION { [1..n -> ByteSample] : n \in 0..MaxLen }

\* whether bytes are the UTF-8 of a string (of one- and two-byte characters)
RECURSIVE IsStr(_)
IsStr(s) ==
    IF s = <<>> THEN TRUE
    ELSE IF s[1] < 128 THEN IsStr(Tail(s))
    ELSE Len(s) >= 2 /\ IsUtf8Pair(<<s[1], s[2]>>) /\ IsStr(Tail(Tail(s)))

MainIdle ==
    /\ pc = "done"
    /\ cmd = "none"
    /\ vars = <<>>
    /\ i = 0
    /\ nv = NoImage
    /\ file = [data |-> <<>>, cursor |-> 0, erasable |-> FALSE]
    /\ data = <<>>
    /\ serial = <<>>
    /\ ref = NoRef
    /\ out = <<>>
    /\ err = "None"
    /\ events = <<>>
    /\ todo = {}
    /\ prev = NoPrev

CodecInit ==
    /\ MainIdle
    /\ cval \in Values
    /\ ctext = <<>>
    /\ cres = Ok(<<>>)
    /\ cpc = "start"

\* print_var's formatting of the value cval
Encode ==
    /\ cpc = "start"
    /\ ctext' = encode(cval)
    /\ cpc' = "encoded"
    /\ UNCHANGED <<cval, cres>>
    /\ UNCHANGED vars_main

\* read_var on the text print_var produced
Decode ==
    /\ cpc = "encoded"
    /\ cres' \in read_var_outcomes(ctext)
    /\ cpc' = "decoded"
    /\ UNCHANGED <<cval, ctext>>
    /\ UNCHANGED vars_main

\* read_var on cval taken as text typed by hand
DecodeTyped ==
    /\ cpc = "start"
    /\ IsStr(cval)
    /\ cres' \in read_var_outcomes(cval)
    /\ cpc' = "typed"
    /\ UNCHANGED <<cval, ctext>>
    /\ UNCHANGED vars_main

CodecNext ==
    \/ Encode
    \/ Decode
    \/ DecodeTyped

CodecSpec == CodecInit /\ [][CodecNext]_allvars

\* ------------------------------------------------------------ claims

\* C1: decoding the text produced by encoding any byte sequence succeeds
\* and gives the byte sequence back: decode(encode(b)) = b.
C1_RoundTrip ==
    cpc = "decoded" => cres = Ok(cval)

IsHexDigit(c) == c \in (48..57) \cup (65..70) \cup (97..102)

\* some '%' of the text t is not followed by two hexadecimal digits
HasBadPercent(t) ==
    \E k \in 1..Len(t) :
        /\ t[k] = Percent
        /\ ~(k + 2 <= Len(t) /\ IsHexDigit(t[k + 1]) /\ IsHexDigit(t[k + 2]))

HexValue(c) == IF c <= 57 THEN c - 48 ELSE IF c <= 70 THEN c - 55 ELSE c - 87

\* each '%' with its two hexadecimal digits replaced by the byte they
\* denote, every other character copied (for a text with no bad '%')
RECURSIVE Unescaped(_)
Unescaped(t) ==
    IF t = <<>> THEN <<>>
    ELSE IF t[1] = Percent
    THEN <<HexValue(t[2]) * 16 + HexValue(t[3])>> \o Unescaped(SubSeq(t, 4, Len(t)))
    ELSE <<t[1]>> \o Unescaped(Tail(t))

\* C6: read_var returns InvalidHex, and neither crashes nor succeeds, when
\* some '%' of its input is not followed by two hexadecimal digits, and
\* otherwise returns the input with every escape replaced by its byte.
C6_DecodeInvalidHex ==
    cpc = "typed" =>
        IF HasBadPercent(cval)
        THEN cres = InvalidHex
        ELSE cres = Ok(Unescaped(cval))

\* the image's two collections
Collections(n) == [common |-> n.common, system |-> n.system]

\* the calls that change the device, in the order they were made
DeviceMutations == SelectSeq(events, LAMBDA e : e \in {"erase", "write_all"})

Mutating == cmd \in {"write", "delete"}

\* C2: a write or delete command that fails has neither erased nor written
\* the device, whose contents are still the bytes read at start-up, also
\* when references of the batch were applied to the image before the failure.
C2_FailureLeavesDevice ==
    (Mutating /\ pc = "done" /\ err # "None") =>
        /\ DeviceMutations = <<>>
        /\ file.data = data

\* a write batch that failed on a bad escape after an insert changed the image
C2_Witness ==
    /\ cmd = "write"
    /\ pc = "done"
    /\ err = "InvalidHex"
    /\ i >= 1
    /\ "insert" \in {events[k] : k \in DOMAIN events}
    /\ Collections(nv) # Collections(Parse(data))

\* C3: a read command never prepares, serializes, erases or writes, and
\* leaves the device and both collections of the image as they were parsed.
C3_ReadTouchesNothing ==
    (cmd = "read" /\ pc # "start") =>
        /\ events = <<>>
        /\ serial = <<>>
        /\ file.data = data
        /\ (err # "Parse" => nv = Parse(data))

\* a read that printed one variable and failed on the next reference
C3_Witness ==
    /\ cmd = "read"
    /\ pc = "done"
    /\ err = "VariableNotFound"
    /\ Len(out) = 1

\* C4 as stated: the device is changed at most once, by a single write made
\* after every edit of the batch, with no erase as a change of its own.
C4_SingleMutation ==
    /\ DeviceMutations \in {<<>>, <<"write_all">>}
    /\ (DeviceMutations # <<>> => i = Len(vars))

\* C4 as amended: the device is changed only after every edit of the batch
\* is applied and the image is serialized, by at most one erase (made by
\* erase_if_needed when the device needs it) followed by the one write.
C4_EraseThenWrite ==
    /\ DeviceMutations \in
           {<<>>, <<"erase">>, <<"write_all">>, <<"erase", "write_all">>}
    /\ \A k \in DOMAIN events :
           events[k] \in {"erase", "write_all"} =>
               /\ i = Len(vars)
               /\ \E j \in 1..(k - 1) : events[j] = "serialize"
               /\ \A j \in (k + 1)..Len(events) :
                      events[j] \notin {"insert", "remove", "serialize"}
    /\ (pc # "start" /\ DeviceMutations = <<>> => file.data = data)

\* a write batch that inserted a variable, erased the device and wrote it
C4_Witness ==
    /\ cmd = "write"
    /\ pc = "done"
    /\ DeviceMutations = <<"erase", "write_all">>
    /\ "insert" \in {events[k] : k \in DOMAIN events}
    /\ file.data = Serialize(nv)

\* the command stopped on reference number i + 1
Stopped == pc = "done" /\ err # "Parse" /\ i < Len(vars)

HasChar(t, d) == \E k \in 1..Len(t) : t[k] = d

BogusX == BOGUS \o <<Colon, 120>>
BogusXValue == BOGUS \o <<Colon, 120, Equals, Percent, 103, 103>>

\* C5 as stated: for read, write and delete alike, the token bogus:x makes
\* the command fail with UnknownPartition.
C5_BogusUnknownPartition ==
    (Stopped /\ vars[i + 1] = BogusX) => err = "UnknownPartition"

\* C5 as amended: no command gets past the token bogus:x; read and delete
\* fail on it with UnknownPartition, write fails on it with MissingValue
\* (it has no '='), and write fails with UnknownPartition on bogus:x=%gg.
C5_BogusByCommand ==
    /\ \A k \in 1..i : vars[k] \notin {BogusX, BogusXValue}
    /\ (pc = "done" /\ err = "None") =>
           \A k \in 1..Len(vars) : vars[k] \notin {BogusX, BogusXValue}
    /\ (Stopped /\ vars[i + 1] = BogusX) =>
           err = IF cmd = "write" THEN "MissingValue" ELSE "UnknownPartition"
    /\ (Stopped /\ vars[i + 1] = BogusXValue /\ cmd = "write") =>
           err = "UnknownPartition"

\* a write that inserted one variable and then met bogus:x=%gg
C5_Witness ==
    /\ cmd = "write"
    /\ Stopped
    /\ i = 1
    /\ vars[i + 1] = BogusXValue
    /\ err = "UnknownPartition"

\* a ':' of t stands before every '=' of t
KeyHasColon(t) ==
    \E k \in 1..Len(t) : t[k] = Colon /\ \A j \in 1..k : t[j] # Equals

\* C7: the token is split at the first '=' (write) and the first ':'; a
\* read or delete token without ':' gives MissingPartitionName, a write
\* token without '=' MissingValue, a write token whose text before the
\* first '=' has no ':' MissingPartitionName; otherwise partition, name and
\* value are the texts around the first ':' and the first '='.
C7_TokenParsing ==
    /\ (Stopped /\ cmd \in {"read", "delete"}) =>
           (err = "MissingPartitionName" <=> ~HasChar(vars[i + 1], Colon))
    /\ (Stopped /\ cmd = "write") =>
           /\ err = "MissingValue" <=> ~HasChar(vars[i + 1], Equals)
           /\ err = "MissingPartitionName" <=>
                  (HasChar(vars[i + 1], Equals) /\ ~KeyHasColon(vars[i + 1]))
    /\ (i >= 1 /\ err = "None") => ref.token = vars[i]
    /\ (Stopped /\ err \notin {"MissingValue", "MissingPartitionName"}) =>
           ref.token = vars[i + 1]
    /\ (ref # NoRef) =>
           /\ ~HasChar(ref.part, Colon)
           /\ cmd = "write" =>
                  /\ ref.token = ref.part \o <<Colon>> \o ref.name
                                     \o <<Equals>> \o ref.value
                  /\ ~HasChar(ref.part, Equals)
                  /\ ~HasChar(ref.name, Equals)
           /\ cmd # "write" =>
                  ref.token = ref.part \o <<Colon>> \o ref.name

\* a write of common:y=1=2 parsed into common, y and 1=2
C7_Witness ==
    /\ cmd = "write"
    /\ ref = Reference(COMMON \o <<Colon, 121, Equals, 49, Equals, 50>>,
                       COMMON, <<121>>, <<49, Equals, 50>>)

\* the token is partition:name with partition common or system
WellFormedRef(t) ==
    \E p \in {COMMON, SYSTEM} :
        Len(t) > Len(p) /\ SubSeq(t, 1, Len(p) + 1) = p \o <<Colon>>

\* the reference list names the variable key of partition p
Names(p, key) == \E k \in 1..Len(vars) : vars[k] = p \o <<Colon>> \o key

Count(e) == Cardinality({k \in DOMAIN events : events[k] = e})

\* C8: a delete whose references are all well formed and name common or
\* system succeeds; a name absent from its collection changes nothing, and
\* the image is still serialized and written to the device.
C8_DeleteTolerant ==
    (cmd = "delete" /\ pc = "done" /\ err # "Parse"
        /\ \A k \in 1..Len(vars) : WellFormedRef(vars[k])) =>
        /\ err = "None"
        /\ nv.common = {v \in Parse(data).common : ~Names(COMMON, v.key)}
        /\ nv.system = {v \in Parse(data).system : ~Names(SYSTEM, v.key)}
        /\ Count("remove") = Len(vars)
        /\ Count("serialize") = 1
        /\ Count("write_all") = 1
        /\ file.data = Serialize(nv)

\* a delete of names that are all absent: nothing removed, device written
C8_Witness ==
    /\ cmd = "delete"
    /\ pc = "done"
    /\ err = "None"
    /\ vars # <<>>
    /\ Parse(data).common # {}
    /\ Collections(nv) = Collections(Parse(data))
    /\ Count("write_all") = 1

\* the partition, name and value text of a write token
WriteRef(t) ==
    LET kv == split_once(t, Equals)
        pn == split_once(kv.before, Colon)
    IN  [part |-> part_by_name(pn.before), name |-> pn.after, value |-> kv.after]

\* the last reference of the batch that names what reference k names
LastOf(k) ==
    CHOOSE j \in k..Len(vars) :
        /\ WriteRef(vars[j]).part = WriteRef(vars[k]).part
        /\ WriteRef(vars[j]).name = WriteRef(vars[k]).name
        /\ \A m \in (j + 1)..Len(vars) :
               \/ WriteRef(vars[m]).part # WriteRef(vars[k]).part
               \/ WriteRef(vars[m]).name # WriteRef(vars[k]).name

\* C9: after a successful write batch every written variable holds the
\* decoded value of the last reference that names it, in exactly one entry
\* of its collection.
C9_LastWriteWins ==
    (cmd = "write" /\ pc = "done" /\ err = "None") =>
        \A k \in 1..Len(vars) :
            SectionGet(nv[WriteRef(vars[k]).part], WriteRef(vars[k]).name)
                = {Variable(WriteRef(vars[k]).name,
                            read_var(WriteRef(vars[LastOf(k)]).value).bytes)}

\* write common:x=1 common:x=2 over an image that held common:x
C9_Witness ==
    /\ cmd = "write"
    /\ pc = "done"
    /\ err = "None"
    /\ vars = <<COMMON \o <<Colon, 120, Equals, 49>>,
                COMMON \o <<Colon, 120, Equals, 50>>>>
    /\ Parse(data).common = {Variable(<<120>>, <<48>>)}
    /\ nv.common = {Variable(<<120>>, <<50>>)}

\* C10: a write or delete with no references still prepares, serializes
\* and commits (erase decision, rewind, write of the whole image): the
\* device is rewritten although no variable changed.
C10_EmptyBatchCommits ==
    (Mutating /\ vars = <<>> /\ pc = "done" /\ err # "Parse") =>
        /\ err = "None"
        /\ nv.prepared = 1
        /\ Count("prepare_for_write") = 1
        /\ Count("rewind") = 1
        /\ Count("serialize") = 1
        /\ Count("erase_if_needed") = 1
        /\ Count("write_all") = 1
        /\ events[Len(events)] = "write_all"
        /\ Collections(nv) = Collections(Parse(data))
        /\ serial = Serialize(nv)
        /\ file.data = serial

\* a delete with no references that went through to the write
C10_Witness ==
    /\ cmd = "delete"
    /\ vars = <<>>
    /\ pc = "done"
    /\ Count("write_all") = 1
    /\ file.erasable

\* the text of a write token after its first '='
ValueOf(t) == split_once(t, Equals).after

\* this invocation is `read p:n` after a successful `write p:n=t`
ReadsBack ==
    /\ prev.run = 1
    /\ prev.cmd = "write"
    /\ prev.err = "None"
    /\ Len(prev.vars) = 1
    /\ cmd = "read"
    /\ vars = <<KeyOf(prev.vars[1])>>

\* C11: after a successful `write p:n=t`, a following `read p:n` on the
\* same device succeeds and prints the one line p:n= followed by the
\* encoding of the decoded t; after `write common:test=%48%65%6c%6c%6f`
\* it prints common:test=Hello.
C11_WriteThenRead ==
    (ReadsBack /\ pc = "done") =>
        /\ err = "None"
        /\ out = <<KeyOf(prev.vars[1]) \o <<Equals>>
                       \o encode(read_var(ValueOf(prev.vars[1])).bytes)>>
        /\ prev.vars = <<HelloToken>> =>
               out = <<COMMON \o <<Colon, 116, 101, 115, 116, Equals,
                                   72, 101, 108, 108, 111>>>>

\* the read of common:test after the write of common:test=%48%65%6c%6c%6f
C11_Witness ==
    /\ ReadsBack
    /\ prev.vars = <<HelloToken>>
    /\ pc = "done"
    /\ Len(out) = 1

\* the characters '0'..'9', 'a'..'f'
LowerHexDigits ==
    <<48, 49, 50, 51, 52, 53, 54, 55, 56, 57, 97, 98, 99, 100, 101, 102>>

Printable == 32..126

\* the byte itself if printable, else '%' and its two lowercase hex digits
RECURSIVE PercentEscaped(_)
PercentEscaped(v) ==
    IF v = <<>> THEN <<>>
    ELSE (IF Head(v) \in Printable
          THEN <<Head(v)>>
          ELSE <<Percent, LowerHexDigits[(Head(v) \div 16) + 1],
                 LowerHexDigits[(Head(v) % 16) + 1]>>)
         \o PercentEscaped(Tail(v))

\* C12: encode emits a printable ASCII byte (0x20..0x7e) as that character
\* and any other byte as '%' and its two lowercase hexadecimal digits; the
\* text holds printable ASCII only, and a value of printable ASCII without
\* '%' encodes to itself.
C12_EncodeFormat ==
    cpc = "encoded" =>
        /\ ctext = PercentEscaped(cval)
        /\ \A k \in 1..Len(ctext) : ctext[k] \in Printable
        /\ (\A k \in 1..Len(cval) : cval[k] \in Printable \ {Percent}) =>
               ctext = cval

\* DEL, 'A' and LF encoded as %7fA%0a
C12_Witness ==
    /\ cpc = "encoded"
    /\ cval = <<127, 65, 10>>
    /\ ctext = <<Percent, 55, 102, 65, Percent, 48, 97>>

\* the collection and the name a well formed reference (or the key of a
\* well formed write token) stands for
RefSection(t) ==
    IF SubSeq(t, 1, Len(COMMON) + 1) = COMMON \o <<Colon>>
    THEN "common" ELSE "system"
RefName(t) == SubSeq(t, Len(COMMON) + 2, Len(t))

\* the variable of the image read at start-up that the reference names
Stored(t) == {v \in Parse(data)[RefSection(t)] : v.key = RefName(t)}

\* C13: a read with references takes them in the order given and prints
\* one line partition:key=encoded-value for each; the first reference that
\* is malformed, names an unknown partition or names an absent variable
\* (VariableNotFound) ends the command, with the lines of the references
\* before it printed and none for it or for later ones.
C13_ReadLines ==
    (cmd = "read" /\ vars # <<>> /\ pc # "start" /\ err # "Parse") =>
        /\ Len(out) = i
        /\ \A k \in 1..i :
               /\ WellFormedRef(vars[k])
               /\ \E v \in Stored(vars[k]) :
                      out[k] = vars[k] \o <<Equals>> \o encode(v.value)
        /\ pc = "read" => (i < Len(vars) /\ err = "None")
        /\ pc = "done" => (err = "None" <=> i = Len(vars))
        /\ Stopped =>
               err = IF ~HasChar(vars[i + 1], Colon) THEN "MissingPartitionName"
                     ELSE IF ~WellFormedRef(vars[i + 1]) THEN "UnknownPartition"
                     ELSE "VariableNotFound"
        /\ (Stopped /\ err = "VariableNotFound") => Stored(vars[i + 1]) = {}

\* a read that printed common:x=0 and stopped on bogus:x
C13_Witness ==
    /\ cmd = "read"
    /\ Stopped
    /\ err = "UnknownPartition"
    /\ out = <<COMMON \o <<Colon, 120, Equals, 48>>>>

\* the line label:key=encoded-value of a variable
Line(label, v) == label \o <<Colon>> \o v.key \o <<Equals>> \o encode(v.value)

\* the places lo..hi of the output that hold the line
Places(line, lo, hi) == {k \in lo..hi : k <= Len(out) /\ out[k] = line}

\* C14: a read without references prints one line for every variable of
\* the common collection, labelled common, then one line for every
\* variable of the system collection, labelled system; it never fails with
\* MissingPartitionName, UnknownPartition or VariableNotFound, also when
\* both collections are empty.
C14_DumpAll ==
    (cmd = "read" /\ vars = <<>> /\ err # "Parse") =>
        /\ err = "None"
        /\ pc = "done" =>
               LET img == Parse(data)
                   nc == Cardinality(img.common)
                   ns == Cardinality(img.system)
               IN  /\ Len(out) = nc + ns
                   /\ \A v \in img.common :
                          Cardinality(Places(Line(COMMON, v), 1, nc)) = 1
                   /\ \A v \in img.system :
                          Cardinality(Places(Line(SYSTEM, v), nc + 1, nc + ns)) = 1

\* a dump of an image with one variable x in each collection
C14_Witness ==
    /\ cmd = "read"
    /\ vars = <<>>
    /\ pc = "done"
    /\ out = <<COMMON \o <<Colon, 120, Equals, 48>>,
               SYSTEM \o <<Colon, 120, Equals, 57>>>>

\* a write or delete command that returned Ok
Committed == Mutating /\ pc = "done" /\ err = "None"

\* the places of the events that are the call e
At(e) == {k \in DOMAIN events : events[k] = e}

\* every call a comes before every call b
Before(a, b) == \A j \in At(a), k \in At(b) : j < k

\* the edits of a whole batch, one for each reference
Edits == [k \in 1..Len(vars) |-> IF cmd = "write" THEN "insert" ELSE "remove"]

RECURSIVE AppliedRefs(_)
AppliedRefs(k) ==
    IF k = 0
    THEN Collections(Parse(data))
    ELSE LET img == AppliedRefs(k - 1)
             t == IF cmd = "write" THEN KeyOf(vars[k]) ELSE vars[k]
             n == RefName(t)
             kept == {v \in img[RefSection(t)] : v.key # n}
         IN  [img EXCEPT ![RefSection(t)] =
                  IF cmd = "write"
                  THEN kept \cup {[key |-> n,
                                   value |-> read_var(ValueOf(vars[k])).bytes]}
                  ELSE kept]

\* the partition name of a reference that has a ':' (for a write token,
\* of its text before the '=')
PartitionOf(t) == split_once(KeyOf(t), Colon).before

\* C16: in a write or delete batch with a reference whose partition name
\* is neither common nor system, when UnknownPartition is raised no
\* variable has been inserted into or removed from either collection by
\* the command, wherever the invalid reference is in the batch.
C16_NoEditBeforeUnknown ==
    (Mutating /\ err = "UnknownPartition") =>
        /\ Count("insert") = 0
        /\ Count("remove") = 0
        /\ Collections(nv) = Collections(Parse(data))

\* C16 as amended: when UnknownPartition is raised in a write or delete
\* batch, the invalid reference itself has inserted or removed nothing and
\* the device is untouched, but the references before it in the batch are
\* already applied to the collections in memory.
C16_UnknownRejected ==
    (Mutating /\ err = "UnknownPartition") =>
        /\ Stopped
        /\ PartitionOf(vars[i + 1]) \notin {COMMON, SYSTEM}
        /\ events = <<"prepare_for_write">> \o SubSeq(Edits, 1, i)
        /\ Collections(nv) = AppliedRefs(i)
        /\ DeviceMutations = <<>>
        /\ file.data = data

\* a write that inserted common:x before it stopped on bogus:x=%gg
C16_Witness ==
    /\ cmd = "write"
    /\ err = "UnknownPartition"
    /\ i = 1
    /\ vars[2] = BogusXValue
    /\ Collections(nv) # Collections(Parse(data))

\* C17: in every write or delete command prepare_for_write is called
\* exactly once, before the first insert or remove and before the
\* serialization, for every reference list, the empty one included, and
\* also when the batch then fails on its first reference.
C17_PrepareOnce ==
    Mutating =>
        /\ pc \in {"start", "prepare"} => events = <<>>
        /\ (pc \notin {"start", "prepare"} /\ err # "Parse") =>
               /\ events # <<>>
               /\ events[1] = "prepare_for_write"
               /\ Count("prepare_for_write") = 1
               /\ nv.prepared = 1
        /\ err = "Parse" => (events = <<>> /\ nv.prepared = 0)

\* a write that failed on its first token: prepare_for_write is the only
\* call made
C17_Witness ==
    /\ cmd = "write"
    /\ Stopped
    /\ i = 0
    /\ err = "MissingPartitionName"
    /\ events = <<"prepare_for_write">>
    /\ nv.prepared = 1

\* C18: in every successful write or delete, when the write of the
\* serialized image begins the device cursor is at offset 0, although the
\* start-up read of the whole device left it at the end of the file; the
\* image then takes the device's bytes [0, length) and is written in full
\* by that one write.
C18_WriteAtStart ==
    Mutating =>
        /\ pc \in {"prepare", "write", "delete", "rewind"} =>
               (file.cursor = Len(data) /\ file.cursor > 0)
        /\ pc \in {"serialize", "erase", "commit"} => file.cursor = 0
        /\ Committed =>
               /\ Count("write_all") = 1
               /\ events[Len(events)] = "write_all"
               /\ Len(file.data) >= Len(serial)
               /\ SubSeq(file.data, 1, Len(serial)) = serial
               /\ file.cursor = Len(serial)
               /\ serial = Serialize(nv)

\* a write about to begin on a device that was just erased, its cursor at 0
C18_Witness ==
    /\ cmd = "write"
    /\ pc = "commit"
    /\ file.cursor = 0
    /\ file.data = <<ErasedCell, ErasedCell>>
    /\ serial # <<>>

\* the reference number k of a write or delete batch
RefOf(k) == IF cmd = "write" THEN KeyOf(vars[k]) ELSE vars[k]

\* the entries of collection q under the name n
Entry(img, q, n) == {v \in img[q] : v.key = n}

\* every name that either image has in collection q
KeysOf(a, b, q) == {v.key : v \in a[q] \cup b[q]}

\* images a and b differ at most at the pairs (q, n) that satisfy Named
SameBut(a, b, Named(_, _)) ==
    \A q \in {"common", "system"} : \A n \in KeysOf(a, b, q) :
        ~Named(q, n) => Entry(a, q, n) = Entry(b, q, n)

\* one step of the program while a write or delete batch is under way: a
\* reference that is applied changes at most its own entry, and every
\* other step leaves both collections as they are
C19_Step ==
    (Mutating /\ pc # "start") =>
        IF pc \in {"write", "delete"} /\ i' = i + 1
        THEN LET IsRef(q, n) == /\ q = RefSection(RefOf(i + 1))
                                /\ n = RefName(RefOf(i + 1))
             IN  SameBut(nv, nv', IsRef)
        ELSE Collections(nv') = Collections(nv)

\* after a successful batch the collections differ from those read at
\* start-up at most at the pairs named in the batch
C19_Batch ==
    Committed =>
        LET InBatch(q, n) ==
                \E k \in 1..Len(vars) : /\ q = RefSection(RefOf(k))
                                        /\ n = RefName(RefOf(k))
        IN  SameBut(Parse(data), nv, InBatch)

\* C19: applying one write or delete reference p:n changes only the entry
\* named n of collection p; every other entry of p and every entry of the
\* other collection, one of the same name n included, is unchanged; so
\* after a successful batch the collections differ from their initial
\* contents only at the pairs (partition, name) named in the batch.
C19_Frame == []C19_Batch /\ [][C19_Step]_allvars

\* a write of system:x over an image that has x in both collections: the
\* common x keeps its value
C19_Witness ==
    /\ cmd = "write"
    /\ Committed
    /\ vars = <<SYSTEM \o <<Colon, 120, Equals, Percent, 52, 49>>>>
    /\ nv.common = {Variable(<<120>>, <<48>>)}
    /\ nv.system = {Variable(<<120>>, <<65>>)}

\* the errors of the write branch in the order the claim gives them
ErrorOrder == <<"MissingValue", "MissingPartitionName", "UnknownPartition",
                "InvalidHex">>

\* the defects of a write token, each under the name of its error
Defects(t) ==
    {e \in {ErrorOrder[k] : k \in DOMAIN ErrorOrder} :
        CASE e = "MissingValue" -> ~HasChar(t, Equals)
          [] e = "MissingPartitionName" -> ~HasChar(KeyOf(t), Colon)
          [] e = "UnknownPartition" ->
                 HasChar(KeyOf(t), Colon) /\ PartitionOf(t) \notin {COMMON, SYSTEM}
          [] e = "InvalidHex" ->
                 HasChar(t, Equals) /\ HasBadPercent(ValueOf(t))}

\* the defect of the token that comes first in the order
FirstDefect(t) ==
    ErrorOrder[CHOOSE k \in DOMAIN ErrorOrder :
                   /\ ErrorOrder[k] \in Defects(t)
                   /\ \A j \in 1..(k - 1) : ErrorOrder[j] \notin Defects(t)]

\* a write stopped on a token with several defects reports the first of them
C20_FirstDefectReported ==
    (cmd = "write" /\ Stopped /\ Cardinality(Defects(vars[i + 1])) >= 2) =>
        err = FirstDefect(vars[i + 1])

\* no token whose value has an invalid escape has been inserted, whole or
\* in part
C20_BadEscapeNotInserted ==
    cmd = "write" =>
        /\ \A k \in 1..i : "InvalidHex" \notin Defects(vars[k])
        /\ (Stopped /\ Defects(vars[i + 1]) = {"InvalidHex"}) =>
               /\ Collections(nv) = AppliedRefs(i)
               /\ Count("insert") = i

\* C20: for a write token with several defects at once the error reported
\* is the first in the order MissingValue, MissingPartitionName,
\* UnknownPartition, InvalidHex (bogus:x=%gg fails with UnknownPartition),
\* and an invalid escape in the value of a reference to a valid partition
\* never has the variable inserted.
C20_ErrorOrder ==
    /\ C20_FirstDefectReported
    /\ C20_BadEscapeNotInserted
    /\ (cmd = "write" /\ Stopped /\ vars[i + 1] = BogusXValue) =>
           err = "UnknownPartition"

====
